---- MODULE Spec2Model ----
(***************************************************************************)
(* Banner / QR-code artifact pipeline of the SITA backend (app_veiculos).  *)
(* The database tables (vehicles of three concrete types, banner rows),    *)
(* the media directory tree and the in-flight API requests are the state;  *)
(* every view, admin action, management command and signal handler is an   *)
(* action.                                                                 *)
(***************************************************************************)
EXTENDS Integers, FiniteSets, Sequences, TLC

\* ------------------------------------------------------------------ bounds
NIdent == 2
NPlaca == 2
MaxVeiculos == 2
NTiposEmUso == 2
MaxBid == 2
MaxSuf == 2
NReq == 2
NSite == 2
NCpf == 2
NFim == 2
NAno == 2
NRand == 2
MaxUsuarios == 2

Idents == 1..NIdent
Placas == 1..NPlaca
Sufs == 1..MaxSuf
Reqs == 1..NReq
Sites == 1..NSite

\* ------------------------------------------------------- program constants
\* the three concrete vehicle models, in the order every lookup loop uses
ClassesVeiculo == <<"TaxiVeiculo", "MotoTaxiVeiculo", "TransporteMunicipalVeiculo">>
Tipos == {ClassesVeiculo[i] : i \in 1..3}
\* the vehicle types the municipality registers vehicles of
TiposEmUso == {ClassesVeiculo[i] : i \in {j \in 1..3 : j <= NTiposEmUso}}

NoVeiculo == [tipo |-> "nenhum", id |-> 0, ident |-> 0, placa |-> 0,
              usuario |-> 0]
NoFile == [dir |-> <<"", 0>>, ident |-> 0, placa |-> 0, suf |-> 0]
NoUrl == [base |-> 0, ident |-> 0]
NoBanner == [id |-> 0, ct |-> "nenhum", oid |-> 0, ident |-> 0,
             arq |-> NoFile, url |-> NoUrl, ativo |-> FALSE]
NoResp == [op |-> "nenhuma", status |-> 0, alvo |-> 0]

VARIABLES
    veiculos,   \* rows of the three vehicle tables
    nextVid,    \* per-table auto-increment primary key
    banners,    \* rows of banner_identificacao
    nextBid,    \* auto-increment primary key of banner_identificacao
    disk,       \* files under MEDIA_ROOT
    dirs,       \* directories under MEDIA_ROOT/banners_identificacao/veiculo
    site,       \* what get_base_url() returns (deployment settings)
    falhas,     \* whether the filesystem may refuse remove / rmdir
    pc,         \* position of every in-flight banner API request
    loc,        \* locals of every in-flight banner API request
    resposta,   \* the last response sent by an API endpoint, or the summary
                \* printed by a management command
    qr,         \* the URL encoded in the QR code of every file of disk
    usuarios,   \* rows of the user table (UsuarioCustom)
    ident8      \* the identifier gerar_identificador_unico is producing

vars == <<veiculos, nextVid, banners, nextBid, disk, dirs, site, falhas,
          pc, loc, resposta, qr, usuarios, ident8>>

NoLoc == [inst |-> NoBanner, veic |-> NoVeiculo, gfk |-> NoVeiculo,
          antigo |-> NoFile, novo |-> NoFile, alvos |-> {}]

\* outcomes of the filesystem calls of one cleanup: all succeed, os.remove
\* raises PermissionError, os.rmdir raises OSError
Falhas == {"nenhuma", "remove", "rmdir"}

\* gerar_identificador_unico before its first draw: n characters chosen,
\* ult the last one, pronto once the joined string is returned
NoIdent8 == [n |-> 0, ult |-> "", pronto |-> FALSE]

\* ------------------------------------------------------------ pure helpers

\* tipo_veiculo_map.get(tipo_veiculo, 'outro')
TipoDir(tipo) ==
    CASE tipo = "TaxiVeiculo" -> "taxi"
      [] tipo = "MotoTaxiVeiculo" -> "mototaxi"
      [] tipo = "TransporteMunicipalVeiculo" -> "transporte_municipal"
      [] OTHER -> "outro"

\* a URL of the route without the identifier
GetVeiculoInfoUrlMutante(identificador, base) ==
    [base |-> base, ident |-> 0]

\* get_veiculo_info_url(identificador): base URL followed by the route
\* /api/veiculos/veiculo/{identificador}/info/
GetVeiculoInfoUrl(identificador, base) ==
    [base |-> base, ident |-> identificador]

\* upload_banner_to(instance, filename) for a resolved vehicle, with
\* filename = banner_{identificador}_{placa}.png
UploadBannerTo(v) ==
    [dir |-> <<TipoDir(v.tipo), v.ident>>, ident |-> v.ident,
     placa |-> v.placa, suf |-> 0]

\* Storage.get_available_name: the name itself unless a file of that name
\* exists, then the name with a random suffix that is not taken either.  The
\* suffixes are interchangeable, so the smallest free one stands for the draw;
\* no name is available once MaxSuf suffixed names exist.
AvailableNames(name, d) ==
    IF name \notin d THEN {name}
    ELSE LET livres == {x \in Sufs : [name EXCEPT !.suf = x] \notin d}
         IN IF livres = {} THEN {}
            ELSE {[name EXCEPT !.suf = CHOOSE x \in livres : \A y \in livres : x <= y]}

FilesIn(dir, d) == {f \in d : f.dir = dir}

\* model_class.objects.get(identificador_unico_veiculo=...) on one table
PorIdentificador(tipo, ident, vs) ==
    LET m == {v \in vs : v.tipo = tipo /\ v.ident = ident}
    IN IF m = {} THEN NoVeiculo ELSE CHOOSE v \in m : TRUE

\* ct.get_object_for_this_type(pk=object_id)
PorPk(tipo, id, vs) ==
    LET m == {v \in vs : v.tipo = tipo /\ v.id = id}
    IN IF m = {} THEN NoVeiculo ELSE CHOOSE v \in m : TRUE

\* the loop over [TaxiVeiculo, MotoTaxiVeiculo, TransporteMunicipalVeiculo]
RECURSIVE BuscarVeiculoDe(_, _, _)
BuscarVeiculoDe(i, ident, vs) ==
    IF i > 3 THEN NoVeiculo
    ELSE LET v == PorIdentificador(ClassesVeiculo[i], ident, vs)
         IN IF v # NoVeiculo THEN v ELSE BuscarVeiculoDe(i + 1, ident, vs)

BuscarVeiculo(ident, vs) == BuscarVeiculoDe(1, ident, vs)

\* BannerIdentificacao.veiculo_por_identificador
VeiculoPorIdentificador(b, vs) ==
    IF b.ct = "nenhum" \/ b.ident = 0 THEN NoVeiculo
    ELSE PorIdentificador(b.ct, b.ident, vs)

\* BannerIdentificacao.veiculo (GenericForeignKey), uncached
VeiculoGfk(b, vs) ==
    IF b.ct = "nenhum" \/ b.oid = 0 THEN NoVeiculo
    ELSE PorPk(b.ct, b.oid, vs)

\* BannerIdentificacao.get_veiculo; gfk is the value the GenericForeignKey
\* descriptor yields on this instance (cached or freshly fetched)
GetVeiculo(b, gfk, vs) ==
    LET v == VeiculoPorIdentificador(b, vs)
    IN IF v # NoVeiculo THEN v ELSE gfk

\* criar_banner_com_qr encodes the qr_url gerar_banner computed from the
\* identifier of the vehicle and the base URL of the moment: the content of
\* the files of d, all written under the base URL base
Conteudo(d, base) == [f \in d |-> GetVeiculoInfoUrl(f.ident, base)]

\* the content of the files of d2 after a step from d: the storage never
\* overwrites, a file that stays keeps its content and a new one is written
\* by gerar_banner under the current base URL
Gravar(d, d2, q, base) ==
    [f \in d2 |-> IF f \in d THEN q[f] ELSE GetVeiculoInfoUrl(f.ident, base)]

\* ---------------------------------------------------- BannerIdentificacao

\* a save that writes the references as it finds them
BackfillMutante(inst, gfk, vs) == inst

\* BannerIdentificacao.save: back-fill of the missing reference, then
\* Model.save (UPDATE by primary key, INSERT when no row was updated) under
\* unique_together = ['content_type', 'identificador_unico_veiculo']
Backfill(inst, gfk, vs) ==
    IF inst.ident # 0 /\ inst.oid = 0 /\ inst.ct # "nenhum"
    THEN LET v == VeiculoPorIdentificador(inst, vs)
         IN IF v # NoVeiculo THEN [inst EXCEPT !.oid = v.id] ELSE inst
    ELSE IF inst.oid # 0 /\ inst.ident = 0 /\ inst.ct # "nenhum"
    THEN IF gfk # NoVeiculo THEN [inst EXCEPT !.ident = gfk.ident] ELSE inst
    ELSE inst

\* a table without the constraint
UniqueTogetherMutante(row, others) == TRUE

UniqueTogether(row, others) ==
    \A b \in others : ~(b.ct = row.ct /\ b.ident = row.ident)

\* a save that writes the row without consulting the constraint
BannerSaveMutante(inst, gfk, bs, vs) ==
    LET row == Backfill(inst, gfk, vs)
    IN [ok |-> TRUE, inst |-> row,
        banners |-> {b \in bs : b.id # row.id} \cup {row}]

BannerSave(inst, gfk, bs, vs) ==
    LET row == Backfill(inst, gfk, vs)
        others == {b \in bs : b.id # row.id}
    IN IF UniqueTogether(row, others)
       THEN [ok |-> TRUE, inst |-> row, banners |-> others \cup {row}]
       ELSE [ok |-> FALSE, inst |-> row, banners |-> bs]

\* the names FieldFile.save may store the new artifact under
NomesPara(inst, gfk, vs, d) ==
    LET v == GetVeiculo(inst, gfk, vs)
    IN IF v = NoVeiculo THEN {NoFile} ELSE AvailableNames(UploadBannerTo(v), d)

\* a gerar_banner that drops the stored file before it builds the new one
GerarBannerMutante(inst, gfk, nome, tpl, bs, vs, d, ds, base) ==
    LET v == GetVeiculo(inst, gfk, vs)
        d0 == d \ {inst.arq}
        falhou == [ok |-> FALSE, inst |-> inst, banners |-> bs,
                   disk |-> d0, dirs |-> ds]
    IN IF v = NoVeiculo THEN falhou
       ELSE IF ~tpl THEN falhou
       ELSE LET qr_url == GetVeiculoInfoUrl(v.ident, base)
                escrito == [inst EXCEPT !.arq = nome, !.url = qr_url]
                s == BannerSave(escrito, gfk, bs, vs)
            IN [ok |-> s.ok, inst |-> s.inst, banners |-> s.banners,
                disk |-> d0 \cup {nome}, dirs |-> ds \cup {nome.dir}]

\* BannerIdentificacao.gerar_banner; tpl says whether criar_banner_com_qr
\* finds the template image, nome is the name the storage picked
GerarBanner(inst, gfk, nome, tpl, bs, vs, d, ds, base) ==
    LET v == GetVeiculo(inst, gfk, vs)
        falhou == [ok |-> FALSE, inst |-> inst, banners |-> bs,
                   disk |-> d, dirs |-> ds]
    IN IF v = NoVeiculo THEN falhou
       ELSE IF ~tpl THEN falhou
       ELSE LET qr_url == GetVeiculoInfoUrl(v.ident, base)
                escrito == [inst EXCEPT !.arq = nome, !.url = qr_url]
                s == BannerSave(escrito, gfk, bs, vs)
            IN [ok |-> s.ok, inst |-> s.inst, banners |-> s.banners,
                disk |-> d \cup {nome}, dirs |-> ds \cup {nome.dir}]

\* a cleanup that looks after the directory and leaves the file behind
RemoverArquivoMutante(path, d, ds, falha) ==
    [disk |-> d,
     dirs |-> IF path.dir \in ds /\ FilesIn(path.dir, d) = {} /\ falha # "rmdir"
              THEN ds \ {path.dir} ELSE ds]

\* os.remove(path) followed by the removal of the parent directory when it
\* is left empty, as both the delete signal and regenerar do it; the OSError
\* of rmdir is swallowed by both
RemoverArquivo(path, d, ds, falha) ==
    LET d2 == d \ {path}
    IN [disk |-> d2,
        dirs |-> IF path.dir \in ds /\ FilesIn(path.dir, d2) = {} /\ falha # "rmdir"
                 THEN ds \ {path.dir} ELSE ds]

\* a handler that logs and removes nothing
RemoveBannerFilesOnDeleteMutante(inst, d, ds, falha) ==
    [ok |-> TRUE, disk |-> d, dirs |-> ds]

\* remove_banner_files_on_delete (pre_delete signal) for one instance:
\* only ValueError and FileNotFoundError are caught around os.remove
RemoveBannerFilesOnDelete(inst, d, ds, falha) ==
    IF inst.arq = NoFile \/ inst.arq \notin d
    THEN [ok |-> TRUE, disk |-> d, dirs |-> ds]
    ELSE IF falha = "remove"
    THEN [ok |-> FALSE, disk |-> d, dirs |-> ds]
    ELSE LET r == RemoverArquivo(inst.arq, d, ds, falha)
         IN [ok |-> TRUE, disk |-> r.disk, dirs |-> r.dirs]

\* -------------------------------------------------------------- responses

\* the response of a banner endpoint and the row it is about
Resp(op, status, alvo) == [op |-> op, status |-> status, alvo |-> alvo]

Quieto == \A r \in Reqs : pc[r] = "idle"

\* the workers are interchangeable: a request that arrives is served by the
\* first idle one
Livre(r) == pc[r] = "idle" /\ \A q \in 1..(r - 1) : pc[q] # "idle"

Termina(r, resp) ==
    /\ pc' = [pc EXCEPT ![r] = "idle"]
    /\ loc' = [loc EXCEPT ![r] = NoLoc]
    /\ resposta' = resp

\* ------------------------------------------------------------------- Init

InitBase ==
    /\ veiculos = {}
    /\ nextVid = [t \in Tipos |-> 1]
    /\ banners = {}
    /\ nextBid = 1
    /\ disk = {}
    /\ qr = Conteudo(disk, 1)
    /\ dirs = {}
    /\ site = 1
    /\ pc = [r \in Reqs |-> "idle"]
    /\ loc = [r \in Reqs |-> NoLoc]
    /\ resposta = NoResp
    /\ usuarios = {}
    /\ ident8 = NoIdent8

Init == InitBase /\ falhas = FALSE

FalhasPossiveis == IF falhas THEN Falhas ELSE {"nenhuma"}

\* --------------------------------------------------------------- vehicles

\* validate_veiculo_unique_fields(placa, instance): every class is searched
\* for the plate, rows whose pk equals instance.pk are excluded
PlacaLivre(placa, pk, vs) ==
    \A w \in vs : ~(w.placa = placa /\ w.id # pk)

\* unique=True on identificador_unico_veiculo and on placa, one constraint
\* per concrete table
TabelaAceita(v, vs) ==
    \A w \in vs : (w.tipo = v.tipo /\ w.id # v.id)
                     => (w.ident # v.ident /\ w.placa # v.placa)

\* vehicles inserted so far, over the three tables
Criados == (nextVid["TaxiVeiculo"] - 1) + (nextVid["MotoTaxiVeiculo"] - 1)
           + (nextVid["TransporteMunicipalVeiculo"] - 1)

\* Identifiers and plates are opaque strings that are only compared for
\* equality: a value that occurs nowhere in the state is named by the
\* smallest unused number
IdentsEmUso ==
    {v.ident : v \in veiculos} \cup {b.ident : b \in banners}
    \cup {f.ident : f \in disk}
    \cup {loc[r].inst.ident : r \in Reqs} \cup {loc[r].veic.ident : r \in Reqs}
    \cup {loc[r].antigo.ident : r \in Reqs}

PlacasEmUso ==
    {v.placa : v \in veiculos} \cup {b.arq.placa : b \in banners}
    \cup {f.placa : f \in disk}
    \cup {loc[r].inst.arq.placa : r \in Reqs} \cup {loc[r].veic.placa : r \in Reqs}
    \cup {loc[r].antigo.placa : r \in Reqs}

Nomeavel(x, emUso) == \A y \in 1..(x - 1) : y \in emUso

\* BaseVeiculoViewSet.create with VeiculoBaseSerializer.validate/create; the
\* identifier is the default gerar_identificador_unico(), the owner is the
\* user matricula_usuario names (user 1)
CriarVeiculo(t, ident, placa) ==
    /\ Criados < MaxVeiculos
    /\ Nomeavel(ident, IdentsEmUso)
    /\ Nomeavel(placa, PlacasEmUso)
    /\ PlacaLivre(placa, 0, veiculos)
    /\ LET v == [tipo |-> t, id |-> nextVid[t], ident |-> ident, placa |-> placa,
                 usuario |-> 1]
       IN /\ TabelaAceita(v, veiculos)
          /\ veiculos' = veiculos \cup {v}
    /\ nextVid' = [nextVid EXCEPT ![t] = @ + 1]
    /\ UNCHANGED <<banners, nextBid, disk, dirs, site, falhas, pc, loc, resposta, qr, usuarios, ident8>>

\* VeiculoBaseSerializer.update on the validated data of a request body
\* [placa, ident] (ident 0: the body has no identificador_unico_veiculo).
\* The field is declared read_only=True, so the serializer never puts it in
\* validated_data and ModelSerializer.update sets the other attributes only
SerializerUpdateMutante(v, dados) ==
    [v EXCEPT !.placa = dados.placa,
              !.ident = IF dados.ident # 0 THEN dados.ident ELSE @]

SerializerUpdate(v, dados) == [v EXCEPT !.placa = dados.placa]

\* BaseVeiculoViewSet.update: identificador_unico_veiculo is read-only
AtualizarVeiculo(v, placa) ==
    /\ v \in veiculos
    /\ placa # v.placa
    /\ Nomeavel(placa, PlacasEmUso)
    /\ PlacaLivre(placa, v.id, veiculos)
    /\ LET w == SerializerUpdate(v, [placa |-> placa, ident |-> 0])
       IN /\ TabelaAceita(w, veiculos)
          /\ veiculos' = (veiculos \ {v}) \cup {w}
    /\ UNCHANGED <<nextVid, banners, nextBid, disk, dirs, site, falhas, pc, loc, resposta, qr, usuarios, ident8>>

\* BaseVeiculoViewSet.update (PUT) and partial_update (PATCH, the plate of
\* the body is then the stored one) with a body that also carries a value
\* for identificador_unico_veiculo; answered 200 with the saved vehicle
AtualizarVeiculoCorpo(v, placa, ident) ==
    /\ v \in veiculos
    /\ Quieto
    /\ placa = v.placa \/ Nomeavel(placa, PlacasEmUso)
    /\ PlacaLivre(placa, v.id, veiculos)
    /\ LET w == SerializerUpdate(v, [placa |-> placa, ident |-> ident])
       IN /\ TabelaAceita(w, veiculos)
          /\ veiculos' = (veiculos \ {v}) \cup {w}
          /\ resposta' = Resp("update_veiculo", 200, w.id)
    /\ UNCHANGED <<nextVid, banners, nextBid, disk, dirs, site, falhas, pc, loc, qr, usuarios, ident8>>

\* BaseVeiculoViewSet.destroy: no banner row refers to the vehicle by a
\* foreign key, nothing cascades
DestroyVeiculo(v) ==
    /\ v \in veiculos
    /\ veiculos' = veiculos \ {v}
    /\ UNCHANGED <<nextVid, banners, nextBid, disk, dirs, site, falhas, pc, loc, resposta, qr, usuarios, ident8>>

\* the deployment changes SITE_DOMAIN / ALLOWED_HOSTS (get_base_url)
MudarSite(s) ==
    /\ s # site
    /\ site' = s
    /\ UNCHANGED <<veiculos, nextVid, banners, nextBid, disk, dirs, falhas, pc, loc, resposta, qr, usuarios, ident8>>

\* ------------------------------------- BannerIdentificacaoViewSet.create

\* BannerCreateSerializer.validate_identificador_veiculo
CreateValidar(r, value) ==
    /\ Livre(r)
    /\ LET v == BuscarVeiculo(value, veiculos)
       IN IF v = NoVeiculo
             \/ \E b \in banners : b.ct = v.tipo /\ b.oid = v.id /\ b.ativo
          THEN /\ resposta' = Resp("create", 400, 0)
               /\ UNCHANGED <<pc, loc>>
          ELSE /\ pc' = [pc EXCEPT ![r] = "c_validado"]
               /\ loc' = [loc EXCEPT ![r] = [NoLoc EXCEPT !.veic = v]]
               /\ UNCHANGED resposta
    /\ UNCHANGED <<veiculos, nextVid, banners, nextBid, disk, dirs, site, falhas, qr, usuarios, ident8>>

\* filter(content_type, object_id, ativo=True).update(ativo=False)
CreateDesativar(r) ==
    /\ pc[r] = "c_validado"
    /\ banners' = {IF b.ct = loc[r].veic.tipo /\ b.oid = loc[r].veic.id /\ b.ativo
                   THEN [b EXCEPT !.ativo = FALSE] ELSE b : b \in banners}
    /\ pc' = [pc EXCEPT ![r] = "c_desativado"]
    /\ UNCHANGED <<veiculos, nextVid, nextBid, disk, dirs, site, falhas, loc, resposta, qr, usuarios, ident8>>

\* BannerIdentificacao.objects.create(content_type, object_id): save() reads
\* the GenericForeignKey to back-fill the identifier, then INSERT
CreateInserir(r) ==
    /\ pc[r] = "c_desativado"
    /\ nextBid <= MaxBid
    /\ LET novo == [NoBanner EXCEPT !.id = nextBid, !.ct = loc[r].veic.tipo,
                                    !.oid = loc[r].veic.id, !.ativo = TRUE]
           gfk == VeiculoGfk(novo, veiculos)
           s == BannerSave(novo, gfk, banners, veiculos)
       IN IF s.ok
          THEN /\ banners' = s.banners
               /\ nextBid' = nextBid + 1
               /\ pc' = [pc EXCEPT ![r] = "c_inserido"]
               /\ loc' = [loc EXCEPT ![r].inst = s.inst, ![r].gfk = gfk]
               /\ UNCHANGED resposta
          ELSE /\ Termina(r, Resp("create", 500, 0))
               /\ UNCHANGED <<banners, nextBid>>
    /\ UNCHANGED <<veiculos, nextVid, disk, dirs, site, falhas, qr, usuarios, ident8>>

\* banner.gerar_banner() on the new row, then the 201 or the 500 response
CreateGerar(r, tpl) ==
    /\ pc[r] = "c_inserido"
    /\ \E nome \in NomesPara(loc[r].inst, loc[r].gfk, veiculos, disk) :
         LET g == GerarBanner(loc[r].inst, loc[r].gfk, nome, tpl, banners,
                              veiculos, disk, dirs, site)
         IN /\ banners' = g.banners
            /\ disk' = g.disk
            /\ dirs' = g.dirs
            /\ Termina(r, Resp("create", IF g.ok THEN 201 ELSE 500, loc[r].inst.id))
    /\ UNCHANGED <<veiculos, nextVid, nextBid, site, falhas, usuarios, ident8>>
    /\ qr' = Gravar(disk, disk', qr, site)

\* ----------------------------------- BannerIdentificacaoViewSet.regenerar

\* get_object_or_404(BannerIdentificacao, identificador_unico_veiculo=...)
GetObject(value, bs) ==
    LET m == {b \in bs : b.ident = value}
    IN IF Cardinality(m) = 1 THEN CHOOSE b \in m : TRUE ELSE NoBanner

\* get_object() and the capture of arquivo_antigo_path
RegCarregar(r, value) ==
    /\ Livre(r)
    /\ LET b == GetObject(value, banners)
       IN IF b = NoBanner
          THEN /\ resposta' = Resp("regenerar",
                                   IF \E x \in banners : x.ident = value
                                   THEN 500 ELSE 404, 0)
               /\ UNCHANGED <<pc, loc>>
          ELSE /\ pc' = [pc EXCEPT ![r] = "r_carregado"]
               /\ loc' = [loc EXCEPT ![r] = [NoLoc EXCEPT !.inst = b, !.antigo = b.arq]]
               /\ UNCHANGED resposta
    /\ UNCHANGED <<veiculos, nextVid, banners, nextBid, disk, dirs, site, falhas, qr, usuarios, ident8>>

\* banner.gerar_banner(): a failure ends the request with the 500 response
RegGerar(r, tpl) ==
    /\ pc[r] = "r_carregado"
    /\ LET gfk == VeiculoGfk(loc[r].inst, veiculos)
       IN \E nome \in NomesPara(loc[r].inst, gfk, veiculos, disk) :
            LET g == GerarBanner(loc[r].inst, gfk, nome, tpl, banners,
                                 veiculos, disk, dirs, site)
            IN /\ banners' = g.banners
               /\ disk' = g.disk
               /\ dirs' = g.dirs
               /\ IF g.ok
                  THEN /\ pc' = [pc EXCEPT ![r] = "r_gerado"]
                       /\ loc' = [loc EXCEPT ![r].inst = g.inst]
                       /\ UNCHANGED resposta
                  ELSE Termina(r, Resp("regenerar", 500, loc[r].inst.id))
    /\ UNCHANGED <<veiculos, nextVid, nextBid, site, falhas, usuarios, ident8>>
    /\ qr' = Gravar(disk, disk', qr, site)

\* banner.refresh_from_db() and the read of novo_arquivo_path
RegRecarregar(r) ==
    /\ pc[r] = "r_gerado"
    /\ LET m == {b \in banners : b.id = loc[r].inst.id}
       IN IF m = {}
          THEN Termina(r, Resp("regenerar", 500, loc[r].inst.id))
          ELSE LET b == CHOOSE x \in m : TRUE
               IN /\ pc' = [pc EXCEPT ![r] = "r_recarregado"]
                  /\ loc' = [loc EXCEPT ![r].inst = b, ![r].novo = b.arq]
                  /\ UNCHANGED resposta
    /\ UNCHANGED <<veiculos, nextVid, banners, nextBid, disk, dirs, site, falhas, qr, usuarios, ident8>>

\* the test without the comparison of the two paths
DeveRemoverMutante(antigo, novo, d) ==
    antigo # NoFile /\ antigo \in d

\* arquivo_antigo_path and os.path.exists(arquivo_antigo_path) and
\* arquivo_antigo_path != novo_arquivo_path
DeveRemover(antigo, novo, d) ==
    antigo # NoFile /\ antigo \in d /\ antigo # novo

\* removal of the old file when it exists and differs from the new one,
\* every OSError swallowed; then the response, which reads banner.veiculo
RegLimpar(r, falha) ==
    /\ pc[r] = "r_recarregado"
    /\ falha \in FalhasPossiveis
    /\ LET antigo == loc[r].antigo
       IN IF DeveRemover(antigo, loc[r].novo, disk) /\ falha # "remove"
          THEN LET x == RemoverArquivo(antigo, disk, dirs, falha)
               IN disk' = x.disk /\ dirs' = x.dirs
          ELSE UNCHANGED <<disk, dirs>>
    /\ Termina(r, Resp("regenerar",
                       IF VeiculoGfk(loc[r].inst, veiculos) = NoVeiculo
                       THEN 500 ELSE 200, loc[r].inst.id))
    /\ UNCHANGED <<veiculos, nextVid, banners, nextBid, site, falhas, usuarios, ident8>>
    /\ qr' = Gravar(disk, disk', qr, site)

\* ------------------------------------------------ deletion of banner rows

\* the pre_delete signal, sent for every collected instance in turn; the
\* first exception that escapes a handler aborts the delete
RECURSIVE SinalLote(_, _, _, _, _)
SinalLote(i, sel, d, ds, f) ==
    IF i > MaxBid THEN [ok |-> TRUE, disk |-> d, dirs |-> ds]
    ELSE LET m == {b \in sel : b.id = i}
         IN IF m = {} THEN SinalLote(i + 1, sel, d, ds, f)
            ELSE LET h == RemoveBannerFilesOnDelete(CHOOSE b \in m : TRUE, d, ds, f[i])
                 IN IF h.ok THEN SinalLote(i + 1, sel, h.disk, h.dirs, f)
                    ELSE [ok |-> FALSE, disk |-> h.disk, dirs |-> h.dirs]

\* instance.delete() / queryset.delete(), first half: the rows are
\* collected and the pre_delete handlers run
DelSinal(r, sel, f) ==
    /\ Livre(r)
    /\ sel # {}
    /\ LET h == SinalLote(1, sel, disk, dirs, f)
       IN /\ disk' = h.disk
          /\ dirs' = h.dirs
          /\ IF h.ok
             THEN /\ pc' = [pc EXCEPT ![r] = "d_sinalizado"]
                  /\ loc' = [loc EXCEPT ![r] = [NoLoc EXCEPT !.alvos = {b.id : b \in sel}]]
                  /\ UNCHANGED resposta
             ELSE Termina(r, Resp("destroy", 500, 0))
    /\ UNCHANGED <<veiculos, nextVid, banners, nextBid, site, falhas, usuarios, ident8>>
    /\ qr' = Gravar(disk, disk', qr, site)

\* second half: the DELETE statements
DelLinhas(r) ==
    /\ pc[r] = "d_sinalizado"
    /\ banners' = {b \in banners : b.id \notin loc[r].alvos}
    /\ Termina(r, Resp("destroy", 204, 0))
    /\ UNCHANGED <<veiculos, nextVid, nextBid, disk, dirs, site, falhas, qr, usuarios, ident8>>

\* update / partial_update through BannerIdentificacaoSerializer, whose
\* only writable model field is ativo
AtualizarBanner(b, a) ==
    /\ b \in banners
    /\ a # b.ativo
    /\ LET s == BannerSave([b EXCEPT !.ativo = a], VeiculoGfk(b, veiculos),
                           banners, veiculos)
       IN /\ s.ok
          /\ banners' = s.banners
    /\ resposta' = NoResp
    /\ UNCHANGED <<veiculos, nextVid, nextBid, disk, dirs, site, falhas, pc, loc, qr, usuarios, ident8>>

\* ------------------------------ admin action and management commands

\* what a batch tool reports when it ends: the mode it announced, the rows
\* it visited in order and its counters (regenerados / banners_corrigidos,
\* erros)
Resumo(op, dry, st) ==
    [op |-> op, status |-> 0, alvo |-> 0, dry |-> dry, total |-> st.total,
     visitados |-> st.visitados, feitos |-> st.feitos, erros |-> st.erros]

\* a loop body that does not count the row whose vehicle is not found
PassoLoteMutante(modo, dry, b, st, tpl) ==
    LET gfk == VeiculoGfk(b, veiculos)
        v == GetVeiculo(b, gfk, veiculos)
        nomes == NomesPara(b, gfk, veiculos, st.disk)
        nome == IF nomes = {} THEN NoFile ELSE CHOOSE x \in nomes : TRUE
        g == GerarBanner(b, gfk, nome, tpl, st.banners, veiculos,
                         st.disk, st.dirs, site)
        nova_url == GetVeiculoInfoUrl(v.ident, site)
        salvo == BannerSave([b EXCEPT !.url = nova_url], gfk,
                            st.banners, veiculos)
        visto == [st EXCEPT !.visitados = Append(@, b.id)]
        gerado == [visto EXCEPT !.banners = g.banners, !.disk = g.disk,
                                !.dirs = g.dirs,
                                !.livre = @ /\ (tpl => nomes # {}),
                                !.feitos = IF g.ok THEN @ + 1 ELSE @,
                                !.erros = IF g.ok THEN @ ELSE @ + 1]
    IN IF v = NoVeiculo THEN visto
       ELSE IF modo \in {"corrigir", "corrigir_regenerate"} /\ b.url = nova_url
       THEN visto
       ELSE IF dry THEN [visto EXCEPT !.feitos = @ + 1]
       ELSE IF modo = "corrigir"
       THEN [visto EXCEPT !.banners = salvo.banners,
                          !.feitos = IF salvo.ok THEN @ + 1 ELSE @,
                          !.erros = IF salvo.ok THEN @ ELSE @ + 1]
       ELSE gerado

\* the body of the loop of a batch tool for the row b, inside its
\* try / except Exception. The admin action calls gerar_banner at once (an
\* unresolved vehicle is its ValueError); the commands resolve the vehicle
\* first and count the row as an error when there is none; corrigir_urls_qr
\* passes over a row whose qr_url is already the expected one; with --dry-run
\* the row is counted and nothing is written. livre records that the storage
\* found a free name for every file written
PassoLote(modo, dry, b, st, tpl) ==
    LET gfk == VeiculoGfk(b, veiculos)
        v == GetVeiculo(b, gfk, veiculos)
        nomes == NomesPara(b, gfk, veiculos, st.disk)
        nome == IF nomes = {} THEN NoFile ELSE CHOOSE x \in nomes : TRUE
        g == GerarBanner(b, gfk, nome, tpl, st.banners, veiculos,
                         st.disk, st.dirs, site)
        nova_url == GetVeiculoInfoUrl(v.ident, site)
        salvo == BannerSave([b EXCEPT !.url = nova_url], gfk,
                            st.banners, veiculos)
        visto == [st EXCEPT !.visitados = Append(@, b.id)]
        gerado == [visto EXCEPT !.banners = g.banners, !.disk = g.disk,
                                !.dirs = g.dirs,
                                !.livre = @ /\ (tpl => nomes # {}),
                                !.feitos = IF g.ok THEN @ + 1 ELSE @,
                                !.erros = IF g.ok THEN @ ELSE @ + 1]
    IN IF v = NoVeiculo THEN [visto EXCEPT !.erros = @ + 1]
       ELSE IF modo \in {"corrigir", "corrigir_regenerate"} /\ b.url = nova_url
       THEN visto
       ELSE IF dry THEN [visto EXCEPT !.feitos = @ + 1]
       ELSE IF modo = "corrigir"
       THEN [visto EXCEPT !.banners = salvo.banners,
                          !.feitos = IF salvo.ok THEN @ + 1 ELSE @,
                          !.erros = IF salvo.ok THEN @ ELSE @ + 1]
       ELSE gerado

\* one pass of a batch tool over the selected rows in primary-key order
RECURSIVE Lote(_, _, _, _, _, _)
Lote(i, modo, dry, sel, st, tpl) ==
    IF i > MaxBid THEN st
    ELSE LET m == {b \in st.banners : b.id = i /\ i \in sel}
         IN IF m = {} THEN Lote(i + 1, modo, dry, sel, st, tpl)
            ELSE Lote(i + 1, modo, dry, sel,
                      PassoLote(modo, dry, CHOOSE x \in m : TRUE, st, tpl), tpl)

\* the state a batch tool starts from: total is banners.count()
InicioLote(sel) ==
    [banners |-> banners, disk |-> disk, dirs |-> dirs, livre |-> TRUE,
     total |-> Cardinality({b \in banners : b.id \in sel}),
     visitados |-> <<>>, feitos |-> 0, erros |-> 0]

Aplicar(modo, dry, sel, tpl) ==
    LET st == Lote(1, modo, dry, sel, InicioLote(sel), tpl)
    IN /\ st.livre
       /\ banners' = st.banners
       /\ disk' = st.disk
       /\ dirs' = st.dirs
       /\ resposta' = Resumo(modo, dry, st)

\* BannerIdentificacaoAdmin.regenerar_banners on the selected rows
AdminRegenerarBanners(sel, tpl) ==
    /\ sel # {}
    /\ Aplicar("admin", FALSE, sel, tpl)
    /\ UNCHANGED <<veiculos, nextVid, nextBid, site, falhas, pc, loc, usuarios, ident8>>
    /\ qr' = Gravar(disk, disk', qr, site)

\* a command that regenerates whether or not --dry-run was given
CmdRegenerarBannersMutante(dry, tpl) ==
    /\ banners # {}
    /\ Aplicar("regenerar_banners", FALSE, 1..MaxBid, tpl)
    /\ UNCHANGED <<veiculos, nextVid, nextBid, site, falhas, pc, loc, usuarios, ident8>>
    /\ qr' = Gravar(disk, disk', qr, site)

\* manage.py regenerar_banners [--dry-run]
CmdRegenerarBanners(dry, tpl) ==
    /\ banners # {}
    /\ Aplicar("regenerar_banners", dry, 1..MaxBid, tpl)
    /\ UNCHANGED <<veiculos, nextVid, nextBid, site, falhas, pc, loc, usuarios, ident8>>
    /\ qr' = Gravar(disk, disk', qr, site)

\* manage.py corrigir_urls_qr [--dry-run] [--regenerate-files]
CmdCorrigirUrlsQr(dry, regenerate_files, tpl) ==
    /\ banners # {}
    /\ Aplicar(IF regenerate_files THEN "corrigir_regenerate" ELSE "corrigir",
               dry, 1..MaxBid, tpl)
    /\ UNCHANGED <<veiculos, nextVid, nextBid, site, falhas, pc, loc, usuarios, ident8>>
    /\ qr' = Gravar(disk, disk', qr, site)

\* ------------------------------------------------------------------- Next

FalhasLote == [1..MaxBid -> FalhasPossiveis]

\* the rows of sel for which the handler calls the filesystem, and the
\* outcomes g of those calls as an entry of FalhasLote
Arquivados(sel) == {b.id : b \in {x \in sel : x.arq \in disk}}

Completa(g) ==
    [i \in 1..MaxBid |-> IF i \in DOMAIN g THEN g[i] ELSE "nenhuma"]

\* the vehicle endpoints
Veiculos ==
    \/ \E t \in TiposEmUso, i \in Idents, p \in Placas : CriarVeiculo(t, i, p)
    \/ \E v \in veiculos, p \in Placas : AtualizarVeiculo(v, p)
    \/ \E v \in veiculos : DestroyVeiculo(v)

\* the steps of a create request handled by worker r
PedidoCreate(r) ==
    \/ \E i \in Idents : CreateValidar(r, i)
    \/ CreateDesativar(r)
    \/ CreateInserir(r)
    \/ \E tpl \in BOOLEAN : CreateGerar(r, tpl)

\* the steps of a regenerar request handled by worker r
PedidoRegenerar(r) ==
    \/ \E i \in Idents : RegCarregar(r, i)
    \/ \E tpl \in BOOLEAN : RegGerar(r, tpl)
    \/ RegRecarregar(r)
    \/ \E f \in Falhas : RegLimpar(r, f)

\* the steps of a delete handled by worker r
PedidoDelete(r) ==
    \/ \E sel \in SUBSET banners :
         \E g \in [Arquivados(sel) -> FalhasPossiveis] :
           DelSinal(r, sel, Completa(g))
    \/ DelLinhas(r)

\* the admin action and the management commands
Ferramentas ==
    \/ \E sel \in SUBSET (1..MaxBid), tpl \in BOOLEAN :
         AdminRegenerarBanners(sel, tpl)
    \/ \E dry \in BOOLEAN, tpl \in BOOLEAN : CmdRegenerarBanners(dry, tpl)
    \/ \E dry \in BOOLEAN, rf \in BOOLEAN, tpl \in BOOLEAN :
         CmdCorrigirUrlsQr(dry, rf, tpl)

\* one worker, one request at a time: the vehicle and banner endpoints
Next ==
    \/ Quieto /\ Veiculos
    \/ PedidoCreate(1)
    \/ PedidoRegenerar(1)
    \/ PedidoDelete(1)

Spec == Init /\ [][Next]_vars

\* a taxi of user 1 whose banner has been generated, and a taxi of user 2
Veiculo0 == [tipo |-> "TaxiVeiculo", id |-> 1, ident |-> 1, placa |-> 1,
             usuario |-> 1]

Veiculo1 == [tipo |-> "TaxiVeiculo", id |-> 2, ident |-> 2, placa |-> 2,
             usuario |-> 2]

Banner0 == [id |-> 1, ct |-> "TaxiVeiculo", oid |-> 1, ident |-> 1,
            arq |-> UploadBannerTo(Veiculo0),
            url |-> GetVeiculoInfoUrl(1, 1), ativo |-> TRUE]

\* the vehicles of frota are registered and no request is in flight
Registrados(frota) ==
    /\ veiculos = frota
    /\ nextVid = [t \in Tipos |-> 1 + Cardinality({v \in frota : v.tipo = t})]
    /\ site = 1
    /\ pc = [r \in Reqs |-> "idle"]
    /\ loc = [r \in Reqs |-> NoLoc]
    /\ resposta = NoResp
    /\ usuarios = {}
    /\ ident8 = NoIdent8

\* as Registrados, after the create endpoint has answered 201 for Veiculo0
Gerado(frota) ==
    /\ Registrados(frota)
    /\ banners = {Banner0}
    /\ nextBid = 2
    /\ disk = {Banner0.arq}
    /\ qr = Conteudo(disk, 1)
    /\ dirs = {Banner0.arq.dir}

\* one request at a time on the banner of Veiculo0 while the vehicle is
\* edited and removed
InitSequencial == Gerado({Veiculo0}) /\ falhas = FALSE

NextSequencial ==
    \/ Quieto /\ \E v \in veiculos, p \in Placas : AtualizarVeiculo(v, p)
    \/ Quieto /\ \E v \in veiculos : DestroyVeiculo(v)
    \/ PedidoCreate(1)
    \/ PedidoRegenerar(1)
    \/ PedidoDelete(1)

SpecSequencial == InitSequencial /\ [][NextSequencial]_vars

\* the banner endpoints, one request at a time, on a filesystem that may
\* refuse remove and rmdir
InitFalhas == Gerado({Veiculo0, Veiculo1}) /\ falhas = TRUE

NextFalhas ==
    \/ PedidoCreate(1)
    \/ PedidoRegenerar(1)
    \/ PedidoDelete(1)

SpecFalhas == InitFalhas /\ [][NextFalhas]_vars

\* one request at a time: the banners are maintained with the admin action
\* and the management commands while vehicles and the site domain change
InitFerramentas == Gerado({Veiculo0}) /\ falhas = FALSE

NextFerramentas ==
    \/ \E v \in veiculos, p \in Placas : AtualizarVeiculo(v, p)
    \/ \E v \in veiculos : DestroyVeiculo(v)
    \/ \E s \in Sites : MudarSite(s)
    \/ Ferramentas

SpecFerramentas == InitFerramentas /\ [][NextFerramentas]_vars

\* NReq workers serve create requests for Veiculo0 concurrently while rows
\* are switched on and off and the vehicle is removed
InitCriar ==
    /\ Registrados({Veiculo0})
    /\ banners = {}
    /\ nextBid = 1
    /\ disk = {}
    /\ qr = Conteudo(disk, 1)
    /\ dirs = {}
    /\ falhas = FALSE

NextCriar ==
    \/ \E v \in veiculos : DestroyVeiculo(v)
    \/ \E b \in banners, a \in BOOLEAN : AtualizarBanner(b, a)
    \/ \E r \in Reqs : PedidoCreate(r)

SpecCriar == InitCriar /\ [][NextCriar]_vars

\* NReq workers serve regenerar requests for the banner of Veiculo0
\* concurrently
InitRegenerar == Gerado({Veiculo0}) /\ falhas = FALSE

NextRegenerar == \E r \in Reqs : PedidoRegenerar(r)

SpecRegenerar == InitRegenerar /\ [][NextRegenerar]_vars

\* --------------------------- BannerIdentificacao instances held in memory

\* GenericForeignKey.__get__ for instance.veiculo: the object cached on the
\* instance by an earlier access is returned without a query, otherwise
\* the row is fetched by (content_type, object_id)
Descritor(inst, cache, vs) ==
    IF cache # NoVeiculo THEN cache ELSE VeiculoGfk(inst, vs)

\* BannerIdentificacao(content_type=..., object_id=..., identificador_...):
\* an unsaved instance (id 0) with any combination of the two references
Construir(r, ct, oid, ident) ==
    /\ Livre(r)
    /\ pc' = [pc EXCEPT ![r] = "m_inst"]
    /\ loc' = [loc EXCEPT ![r] = [NoLoc EXCEPT
                 !.inst = [NoBanner EXCEPT !.ct = ct, !.oid = oid,
                                           !.ident = ident, !.ativo = TRUE]]]
    /\ UNCHANGED <<veiculos, nextVid, banners, nextBid, disk, dirs, site,
                   falhas, resposta, qr, usuarios, ident8>>

\* BannerIdentificacao.objects.get(pk=...): a fresh instance of a stored row
ObterBanner(r, b) ==
    /\ Livre(r)
    /\ b \in banners
    /\ pc' = [pc EXCEPT ![r] = "m_inst"]
    /\ loc' = [loc EXCEPT ![r] = [NoLoc EXCEPT !.inst = b]]
    /\ UNCHANGED <<veiculos, nextVid, banners, nextBid, disk, dirs, site,
                   falhas, resposta, qr, usuarios, ident8>>

\* instance.save(): the primary key of an unsaved instance is assigned by
\* the INSERT; an IntegrityError leaves the table and the key as they were
ChamarSave(r) ==
    /\ pc[r] = "m_inst"
    /\ loc[r].inst.id # 0 \/ nextBid <= MaxBid
    /\ LET inst == loc[r].inst
           gfk == Descritor(inst, loc[r].gfk, veiculos)
           lido == inst.oid # 0 /\ inst.ident = 0 /\ inst.ct # "nenhum"
           linha == IF inst.id = 0 THEN [inst EXCEPT !.id = nextBid] ELSE inst
           s == BannerSave(linha, gfk, banners, veiculos)
       IN /\ banners' = s.banners
          /\ nextBid' = IF s.ok /\ inst.id = 0 THEN nextBid + 1 ELSE nextBid
          /\ loc' = [loc EXCEPT
                       ![r].inst = IF s.ok THEN s.inst
                                   ELSE [s.inst EXCEPT !.id = inst.id],
                       ![r].gfk = IF lido THEN gfk ELSE @]
          /\ resposta' = Resp("save", IF s.ok THEN 200 ELSE 500, s.inst.id)
    /\ UNCHANGED <<veiculos, nextVid, disk, dirs, site, falhas, pc, qr, usuarios, ident8>>

\* instance.get_veiculo(): the result is kept in loc[r].veic
ChamarGetVeiculo(r) ==
    /\ pc[r] = "m_inst"
    /\ LET inst == loc[r].inst
           gfk == Descritor(inst, loc[r].gfk, veiculos)
           lido == VeiculoPorIdentificador(inst, veiculos) = NoVeiculo
           v == GetVeiculo(inst, gfk, veiculos)
       IN /\ loc' = [loc EXCEPT ![r].veic = v,
                                ![r].gfk = IF lido THEN gfk ELSE @]
          /\ resposta' = Resp("get_veiculo",
                              IF v = NoVeiculo THEN 404 ELSE 200, inst.id)
    /\ UNCHANGED <<veiculos, nextVid, banners, nextBid, disk, dirs, site,
                   falhas, pc, qr, usuarios, ident8>>

\* the instance goes out of scope
Soltar(r) ==
    /\ pc[r] = "m_inst"
    /\ pc' = [pc EXCEPT ![r] = "idle"]
    /\ loc' = [loc EXCEPT ![r] = NoLoc]
    /\ UNCHANGED <<veiculos, nextVid, banners, nextBid, disk, dirs, site,
                   falhas, resposta, qr, usuarios, ident8>>

\* the taxis registered when the process starts; instances are built with
\* every combination of their keys and identifiers, absent references
\* included
FrotaInstancia == {Veiculo0, Veiculo1}

\* one process that builds or loads banner instances and calls save() and
\* get_veiculo() on them while vehicles are deleted
InitInstancia ==
    /\ Registrados(FrotaInstancia)
    /\ banners = {}
    /\ nextBid = 1
    /\ disk = {}
    /\ qr = Conteudo(disk, 1)
    /\ dirs = {}
    /\ falhas = FALSE

NextInstancia ==
    \/ \E oid \in {0} \cup {v.id : v \in FrotaInstancia},
          ident \in {0} \cup {v.ident : v \in FrotaInstancia} :
         Construir(1, "TaxiVeiculo", oid, ident)
    \/ \E b \in banners : ObterBanner(1, b)
    \/ ChamarSave(1)
    \/ ChamarGetVeiculo(1)
    \/ Soltar(1)
    \/ \E v \in veiculos : DestroyVeiculo(v)

SpecInstancia == InitInstancia /\ [][NextInstancia]_vars

\* NReq workers serve regenerar requests for the banner of Veiculo0
\* concurrently, the first one also serves create and delete requests,
\* while banners are edited (PATCH ativo) and the vehicle is deleted
InitConcorrente == Gerado({Veiculo0}) /\ falhas = FALSE

NextConcorrente ==
    \/ PedidoCreate(1)
    \/ \E r \in Reqs : PedidoRegenerar(r)
    \/ PedidoDelete(1)
    \/ \E b \in banners, a \in BOOLEAN : AtualizarBanner(b, a)
    \/ \E v \in veiculos : DestroyVeiculo(v)

SpecConcorrente == InitConcorrente /\ [][NextConcorrente]_vars

\* the vehicle endpoints alone, from empty tables; updates carry a value
\* for the read-only identifier
NextVeiculos ==
    \/ Veiculos
    \/ \E v \in veiculos, placa \in Placas, ident \in Idents :
         AtualizarVeiculoCorpo(v, placa, ident)

SpecVeiculos == Init /\ [][NextVeiculos]_vars

\* ----------------------------------------------------------- properties

\* the vehicle a row resolves to now (BannerIdentificacao.veiculo)
VeiculoDe(b) == GetVeiculo(b, VeiculoGfk(b, veiculos), veiculos)

C2_CorridaRegenerar ==
    [][\A b \in banners' :
         (b.arq # NoFile /\ b.arq \in disk /\ b.arq \notin disk')
         => \E r \in Reqs :
              /\ pc[r] = "r_recarregado" /\ pc'[r] = "idle"
              /\ loc[r].inst.id = b.id
              /\ loc[r].antigo = b.arq
              /\ loc[r].novo # b.arq]_vars

C2_Witness ==
    /\ Quieto
    /\ \E b \in banners : b.arq # NoFile /\ b.arq \notin disk

C4_RegeneraNoLugar ==
    [][\A b \in banners : \A c \in banners' :
         (c.id = b.id /\ b.arq \in disk /\ c.arq # b.arq)
         => /\ b.arq \notin disk'
            /\ FilesIn(c.arq.dir, disk') = {c.arq}]_vars

\* C5: a row leaves the table only when its file is no longer on disk, the
\* pre_delete handlers having run first; a delete of rows whose files are
\* all missing passes the handlers without an exception
C5_ArquivoAntesDaLinha ==
    [][/\ \A b \in banners :
            (\A c \in banners' : c.id # b.id) => b.arq \notin disk
       /\ \A b \in banners, x \in FalhasPossiveis :
            b.arq \notin disk
            => RemoveBannerFilesOnDelete(b, disk, dirs, x).ok]_vars

C5_Witness ==
    /\ pc[1] = "d_sinalizado"
    /\ \E b \in banners :
         b.id \in loc[1].alvos /\ b.arq # NoFile /\ b.arq \notin disk

\* C6: whatever the filesystem does while the pre_delete handlers run, the
\* delete goes on to remove the rows
C6_FalhaNuncaPropaga ==
    [][\A r \in Reqs, sel \in SUBSET banners, f \in FalhasLote :
         DelSinal(r, sel, f) => pc'[r] = "d_sinalizado"]_vars

\* the rows that refer to vehicle v
BannersDe(v, bs) ==
    {b \in bs : b.ct = v.tipo /\ (b.oid = v.id \/ b.ident = v.ident)}

\* C7: under every interleaving of create requests a vehicle has at most
\* one row with ativo = TRUE
C7_UmAtivoPorVeiculo ==
    \A v \in veiculos :
      Cardinality({b \in BannersDe(v, banners) : b.ativo}) <= 1

C7_Witness ==
    \E r \in Reqs, q \in Reqs :
      /\ r # q
      /\ pc[r] = "c_inserido" /\ pc[q] = "c_desativado"
      /\ loc[q].veic = loc[r].veic
      /\ loc[r].veic \in veiculos

\* C8: a create request for a vehicle that already has a banner row passes
\* validation and inserts its row; the earlier rows are still in the table
\* with ativo = FALSE and the new row is the only active one of the vehicle
C8_CreateSubstitui ==
    [][/\ \A r \in Reqs, i \in Idents :
            (/\ CreateValidar(r, i)
             /\ BuscarVeiculo(i, veiculos) # NoVeiculo
             /\ BannersDe(BuscarVeiculo(i, veiculos), banners) # {})
            => pc'[r] = "c_validado"
       /\ \A r \in Reqs :
            (/\ pc[r] = "c_desativado" /\ pc'[r] # "c_desativado"
             /\ BannersDe(loc[r].veic, banners) # {})
            => /\ pc'[r] = "c_inserido"
               /\ \A b \in BannersDe(loc[r].veic, banners) :
                    b \in banners' /\ ~b.ativo
               /\ \A c \in BannersDe(loc[r].veic, banners') :
                    c.ativo <=> c.id = loc'[r].inst.id]_vars

\* C9: the table never holds two rows with the same (content_type,
\* identificador_unico_veiculo), and an insert that the constraint rejects
\* leaves the rows as they were
C9_ParUnico ==
    [][/\ \A b \in banners', c \in banners' :
            (b.ct = c.ct /\ b.ident = c.ident) => b = c
       /\ \A r \in Reqs :
            (pc[r] = "c_desativado" /\ pc'[r] = "idle")
            => /\ banners' = banners
               /\ \E b \in banners :
                    /\ b.ct = loc[r].veic.tipo
                    /\ b.ident = PorPk(loc[r].veic.tipo, loc[r].veic.id,
                                       veiculos).ident]_vars

C9_Witness ==
    /\ resposta.op = "create" /\ resposta.status = 500 /\ resposta.alvo = 0
    /\ \E b \in banners : b.ident # 0

\* C10: no two vehicles, of the same or of different types, share an
\* identificador_unico_veiculo
C10_IdentificadorGlobal ==
    \A v \in veiculos, w \in veiculos : v.ident = w.ident => v = w

\* C11: no step changes the identificador_unico_veiculo of a vehicle row
\* that exists before and after it, also when the update request supplies
\* another value for the field
C11_IdentificadorImutavel ==
    [][\A v \in veiculos : \A w \in veiculos' :
          (w.tipo = v.tipo /\ w.id = v.id) => w.ident = v.ident]_vars

\* an update whose body carried an identifier was answered 200 for a
\* vehicle whose plate it changed
C11_Witness ==
    /\ resposta = Resp("update_veiculo", 200, 1)
    /\ \E v \in veiculos : v.id = 1 /\ v.ident = 1 /\ v.placa = 2

\* C12: the lookup by identifier (Taxi, then MotoTaxi, then
\* TransporteMunicipal, first match wins) returns, for the identifier of
\* every stored vehicle, that vehicle with its type, and not-found for an
\* identifier no stored vehicle holds
C12_BuscaIdaEVolta ==
    /\ \A v \in veiculos : BuscarVeiculo(v.ident, veiculos) = v
    /\ \A i \in Idents :
         (\A v \in veiculos : v.ident # i) => BuscarVeiculo(i, veiculos) = NoVeiculo

\* C13: for every stored banner row whose object_id and
\* identificador_unico_veiculo are both populated, the lookup by
\* (content_type, identificador_unico_veiculo) and the lookup by
\* (content_type, object_id) give the same vehicle
C13_ReferenciasConcordam ==
    \A b \in banners :
        (b.oid # 0 /\ b.ident # 0)
            => VeiculoPorIdentificador(b, veiculos) = VeiculoGfk(b, veiculos)

\* C14: a save() that persists the instance back-fills the missing
\* reference: with content_type and identifier but no object_id, and the
\* vehicle of that identifier stored, the row gets that vehicle's id; with
\* content_type and object_id but no identifier, and the vehicle of that id
\* stored, the row gets that vehicle's identifier; a reference that was
\* populated before the call is persisted as it was
C14_SavePreencheReferencia ==
    [][ChamarSave(1) /\ resposta'.status = 200 =>
         LET inst == loc[1].inst
             porIdent == PorIdentificador(inst.ct, inst.ident, veiculos)
             porPk == PorPk(inst.ct, inst.oid, veiculos)
         IN \E row \in banners' :
              /\ row.id = resposta'.alvo
              /\ row = loc'[1].inst
              /\ (inst.ident # 0 /\ inst.oid = 0 /\ porIdent # NoVeiculo)
                    => row.oid = porIdent.id
              /\ (inst.oid # 0 /\ inst.ident = 0 /\ porPk # NoVeiculo)
                    => row.ident = porPk.ident
              /\ inst.oid # 0 => row.oid = inst.oid
              /\ inst.ident # 0 => row.ident = inst.ident]_vars

\* a save() answered without error has just filled the identifier of the
\* held instance from the vehicle its object_id names, and the row is stored
C14_Witness ==
    /\ pc[1] = "m_inst"
    /\ resposta = Resp("save", 200, loc[1].inst.id)
    /\ loc[1].inst \in banners
    /\ loc[1].gfk \in veiculos
    /\ loc[1].inst.oid = loc[1].gfk.id
    /\ loc[1].inst.ident = loc[1].gfk.ident

\* C15: get_veiculo() returns the vehicle stored under (content_type,
\* identificador_unico_veiculo) when there is one, otherwise the vehicle
\* stored under (content_type, object_id), and None when neither is stored
C15_GetVeiculoPrioridade ==
    [][ChamarGetVeiculo(1) =>
         LET inst == loc[1].inst
             porIdent == PorIdentificador(inst.ct, inst.ident, veiculos)
             porPk == PorPk(inst.ct, inst.oid, veiculos)
         IN loc'[1].veic = IF inst.ident # 0 /\ porIdent # NoVeiculo THEN porIdent
                           ELSE IF inst.oid # 0 THEN porPk
                           ELSE NoVeiculo]_vars

\* C16: when gerar_banner() succeeds, in the create or in the regenerar
\* endpoint, on a banner whose vehicle resolves, the stored row of that
\* banner has an artifact file that exists on disk and a qr_url made of the
\* base URL and the identifier of the resolved vehicle
C16_GeradoComArquivoEUrl ==
    [][\A tpl \in BOOLEAN :
         LET inst == loc[1].inst
             porIdent == PorIdentificador(inst.ct, inst.ident, veiculos)
             v == IF inst.ident # 0 /\ porIdent # NoVeiculo THEN porIdent
                  ELSE PorPk(inst.ct, inst.oid, veiculos)
         IN (/\ v # NoVeiculo
             /\ \/ RegGerar(1, tpl) /\ pc'[1] = "r_gerado"
                \/ CreateGerar(1, tpl) /\ resposta'.status = 201)
            => \E row \in banners' :
                 /\ row.id = inst.id
                 /\ row.arq # NoFile
                 /\ row.arq \in disk'
                 /\ row.url.base = site
                 /\ row.url.ident = v.ident
                 /\ row.url.ident # 0]_vars

\* a regenerar request has just regenerated the banner after the plate of
\* its vehicle changed: the row references the new file, which is on disk
C16_Witness ==
    /\ pc[1] = "r_gerado"
    /\ \E b \in banners :
         /\ b.id = loc[1].inst.id
         /\ b.arq \in disk
         /\ b.arq # Banner0.arq
         /\ b.url.ident = VeiculoDe(b).ident

\* C17: every file a step of gerar_banner() adds to the disk, on first
\* generation and on regeneration, has the path
\* banners_identificacao/veiculo/{tipo_dir}/{identificador}/
\* banner_{identificador}_{placa}.png of a stored vehicle, with nothing
\* added to the name, tipo_dir being the directory of the vehicle's class
C17_CaminhoDoArtefato ==
    [][\A f \in disk' \ disk :
         \E v \in veiculos :
           f = [dir |-> <<TipoDir(v.tipo), v.ident>>, ident |-> v.ident,
                placa |-> v.placa, suf |-> 0]]_vars

\* C18: a gerar_banner() that fails because neither reference of the banner
\* resolves to a stored vehicle, or because the template image is missing,
\* ends in an error for the caller and changes no banner row, no file and
\* no directory
C18_FalhaSemEfeito ==
    [][\A tpl \in BOOLEAN :
         LET inst == loc[1].inst
             semVeiculo ==
                 /\ PorIdentificador(inst.ct, inst.ident, veiculos) = NoVeiculo
                 /\ PorPk(inst.ct, inst.oid, veiculos) = NoVeiculo
         IN (/\ RegGerar(1, tpl) \/ CreateGerar(1, tpl)
             /\ semVeiculo \/ ~tpl)
            => /\ resposta'.status >= 400
               /\ pc'[1] = "idle"
               /\ banners' = banners
               /\ disk' = disk
               /\ dirs' = dirs]_vars

\* a regenerar request on the first banner was answered with an error and
\* the row, its file and the directory are those of before the request
C18_Witness ==
    /\ Quieto
    /\ resposta = Resp("regenerar", 500, 1)
    /\ banners = {Banner0}
    /\ disk = {Banner0.arq}
    /\ dirs = {Banner0.arq.dir}

\* C19: no step of a regenerar request adds or removes a banner row, and
\* every such step leaves id, content_type, object_id, identifier and ativo
\* of the regenerated row, and all of every other row, as they were
C19_RegenerarMantemLinha ==
    [][\A r \in Reqs :
         PedidoRegenerar(r) =>
           /\ {c.id : c \in banners'} = {b.id : b \in banners}
           /\ \A b \in banners : \A c \in banners' :
                c.id = b.id =>
                  /\ c.ct = b.ct /\ c.oid = b.oid /\ c.ident = b.ident
                  /\ c.ativo = b.ativo
                  /\ b.id # loc[r].inst.id => c = b]_vars

\* C20: a banner row leaves the table only in the explicit delete of that
\* banner, the file a row references leaves the disk only in the pre_delete
\* handlers of an explicit delete, and the step that deletes a vehicle
\* keeps every banner row of the vehicle, for which get_veiculo() then
\* finds nothing
C20_SoDeleteExplicito ==
    [][/\ \A b \in banners :
            (\A c \in banners' : c.id # b.id)
            => \E r \in Reqs : /\ pc[r] = "d_sinalizado" /\ pc'[r] = "idle"
                               /\ b.id \in loc[r].alvos
       /\ \A b \in banners :
            (b.arq \in disk /\ b.arq \notin disk')
            => \E r \in Reqs :
                 /\ pc[r] = "idle"
                 /\ \/ pc'[r] = "d_sinalizado" /\ b.id \in loc'[r].alvos
                    \/ pc'[r] = "idle" /\ resposta' = Resp("destroy", 500, 0)
       /\ \A v \in veiculos : \A b \in banners :
            (/\ PorPk(v.tipo, v.id, veiculos') = NoVeiculo
             /\ b.ct = v.tipo /\ b.oid = v.id)
            => /\ b \in banners'
               /\ GetVeiculo(b, VeiculoGfk(b, veiculos'), veiculos') = NoVeiculo
      ]_vars

\* C21: after every step no two banner rows reference the same file, and a
\* file that a step takes off the disk is referenced by no row other than
\* the one a regenerar request is cleaning up after or the ones an explicit
\* delete is removing
C21_ArquivoDeUmaLinha ==
    [][/\ \A b \in banners' : \A c \in banners' :
            (b.id # c.id /\ b.arq # NoFile) => b.arq # c.arq
       /\ \A f \in disk \ disk' : \A b \in banners :
            b.arq = f
            => \E r \in Reqs :
                 \/ pc[r] = "r_recarregado" /\ loc[r].inst.id = b.id
                 \/ /\ pc[r] = "idle"
                    /\ \/ pc'[r] = "d_sinalizado" /\ b.id \in loc'[r].alvos
                       \/ pc'[r] = "idle" /\ resposta' = Resp("destroy", 500, 0)
      ]_vars

\* ------------------------------------------------ the management commands

\* the banner the create endpoint generated for Veiculo1
Banner1 == [id |-> 2, ct |-> "TaxiVeiculo", oid |-> 2, ident |-> 2,
            arq |-> UploadBannerTo(Veiculo1),
            url |-> GetVeiculoInfoUrl(2, 1), ativo |-> TRUE]

\* the commands are run, one at a time, on the banners of two taxis, both
\* generated under the first base URL; the deployment may have moved to
\* another one since, and taxis are removed between the runs
InitLote ==
    /\ veiculos = {Veiculo0, Veiculo1}
    /\ nextVid = [t \in Tipos |-> IF t = "TaxiVeiculo" THEN 3 ELSE 1]
    /\ banners = {Banner0, Banner1}
    /\ nextBid = 3
    /\ disk = {Banner0.arq, Banner1.arq}
    /\ dirs = {Banner0.arq.dir, Banner1.arq.dir}
    /\ qr = Conteudo(disk, 1)
    /\ site \in Sites
    /\ falhas = FALSE
    /\ pc = [r \in Reqs |-> "idle"]
    /\ loc = [r \in Reqs |-> NoLoc]
    /\ resposta = NoResp
    /\ usuarios = {}
    /\ ident8 = NoIdent8

Comandos ==
    \/ \E dry \in BOOLEAN, tpl \in BOOLEAN : CmdRegenerarBanners(dry, tpl)
    \/ \E dry \in BOOLEAN, rf \in BOOLEAN, tpl \in BOOLEAN :
         CmdCorrigirUrlsQr(dry, rf, tpl)

NextLote ==
    \/ \E v \in veiculos : DestroyVeiculo(v)
    \/ Comandos

SpecLote == InitLote /\ [][NextLote]_vars

\* C22: a run of regenerar_banners or corrigir_urls_qr visits every row of
\* the table exactly once, whatever fails on the way, and the counters of
\* regenerar_banners add up to the number of rows
C22_LoteVisitaTodos ==
    [][Comandos =>
         /\ Len(resposta'.visitados) = Cardinality(banners)
         /\ {resposta'.visitados[i] : i \in 1..Len(resposta'.visitados)}
              = {b.id : b \in banners}
         /\ resposta'.op = "regenerar_banners"
              => resposta'.feitos + resposta'.erros = Cardinality(banners)
      ]_vars

\* regenerar_banners has counted the banner of the removed taxi as an error
\* and has gone on to regenerate the banner of the other taxi
C22_Witness ==
    /\ resposta.op = "regenerar_banners"
    /\ resposta.visitados = <<1, 2>>
    /\ resposta.erros = 1 /\ resposta.feitos = 1
    /\ Veiculo0 \notin veiculos
    /\ \E b \in banners : b.id = 2 /\ b.arq.suf = 1

\* C23: a run of regenerar_banners or corrigir_urls_qr with --dry-run leaves
\* every row of the table, every file with its content and every directory
\* of the storage as it found them
C23_DryRunNaoEscreve ==
    [][(\E tpl \in BOOLEAN :
          \/ CmdRegenerarBanners(TRUE, tpl)
          \/ \E rf \in BOOLEAN : CmdCorrigirUrlsQr(TRUE, rf, tpl))
       => UNCHANGED <<banners, disk, dirs, qr>>]_vars

\* corrigir_urls_qr --dry-run --regenerate-files has resolved the vehicle of
\* a row, found its qr_url out of date, counted it, and the row still
\* carries the old URL
C23_Witness ==
    /\ resposta.op = "corrigir_regenerate" /\ resposta.dry
    /\ resposta.feitos >= 1
    /\ \E b \in banners :
         /\ VeiculoDe(b) # NoVeiculo
         /\ b.url # GetVeiculoInfoUrl(VeiculoDe(b).ident, site)
         /\ b.arq \in disk

\* ------------------------------------------- responses of the banner API

\* C24: a create or regenerar request whose vehicle is not found is answered
\* 404, and one whose artifact cannot be generated (no template image) is
\* answered 500
C24_RespostasDeErro ==
    [][/\ \A i \in Idents :
            (CreateValidar(1, i) /\ BuscarVeiculo(i, veiculos) = NoVeiculo)
            => resposta'.status = 404
       /\ \A tpl \in BOOLEAN :
            (RegGerar(1, tpl) /\ VeiculoDe(loc[1].inst) = NoVeiculo)
            => resposta'.status = 404
       /\ (RegGerar(1, FALSE) /\ VeiculoDe(loc[1].inst) # NoVeiculo)
            => resposta'.status = 500
       /\ (CreateGerar(1, FALSE)
             /\ GetVeiculo(loc[1].inst, loc[1].gfk, veiculos) # NoVeiculo)
            => resposta'.status = 500
      ]_vars

\* ------------------------------------------------ gerar_identificador_unico

\* string.ascii_uppercase and string.digits
AsciiUppercase ==
    <<"A", "B", "C", "D", "E", "F", "G", "H", "I", "J", "K", "L", "M",
      "N", "O", "P", "Q", "R", "S", "T", "U", "V", "W", "X", "Y", "Z">>

Digits == <<"0", "1", "2", "3", "4", "5", "6", "7", "8", "9">>

\* a replace that finds nothing to take out
ReplaceMutante(s, old) == s

\* str.replace(old, '') for a one-character old
Replace(s, old) == SelectSeq(s, LAMBDA x : x # old)

\* the population the identifier is drawn from
Caracteres ==
    Replace(Replace(Replace(Replace(Replace(AsciiUppercase \o Digits,
        "O"), "0"), "I"), "L"), "1")

\* k of random.choices(caracteres, k=8)
K == 8

\* random.choices draws the next character: any position of the population
Choices(i) ==
    /\ ~ident8.pronto
    /\ ident8.n < K
    /\ ident8' = [n |-> ident8.n + 1, ult |-> Caracteres[i], pronto |-> FALSE]
    /\ UNCHANGED <<veiculos, nextVid, banners, nextBid, disk, dirs, site, falhas,
                   pc, loc, resposta, qr, usuarios>>

\* ''.join(...) of the k characters drawn is returned
Join ==
    /\ ~ident8.pronto
    /\ ident8.n = K
    /\ ident8' = [ident8 EXCEPT !.pronto = TRUE]
    /\ UNCHANGED <<veiculos, nextVid, banners, nextBid, disk, dirs, site, falhas,
                   pc, loc, resposta, qr, usuarios>>

\* the next call of gerar_identificador_unico
Chamar ==
    /\ ident8.pronto
    /\ ident8' = NoIdent8
    /\ UNCHANGED <<veiculos, nextVid, banners, nextBid, disk, dirs, site, falhas,
                   pc, loc, resposta, qr, usuarios>>

NextIdentificador ==
    \/ \E i \in 1..Len(Caracteres) : Choices(i)
    \/ Join
    \/ Chamar

SpecIdentificador == Init /\ [][NextIdentificador]_vars

\* C25: every character gerar_identificador_unico puts in an identifier is
\* one of the 31 symbols ABCDEFGHJKMNPQRSTUVWXYZ23456789, and the identifier
\* it returns has 8 characters
C25_OitoDoAlfabeto ==
    /\ ident8.n > 0
         => ident8.ult \in {"A", "B", "C", "D", "E", "F", "G", "H", "J", "K",
                            "M", "N", "P", "Q", "R", "S", "T", "U", "V", "W",
                            "X", "Y", "Z", "2", "3", "4", "5", "6", "7", "8",
                            "9"}
    /\ ident8.pronto => ident8.n = 8

\* an identifier has been returned whose last character is the digit 9
C25_Witness == ident8.pronto /\ ident8.ult = "9"

\* ------------------------------------------- CustomUserManager.create_user

\* a CPF is its first eight digits and its last three; the years the clock
\* may show; what random.randint(0, 999) may return
Cpfs == [resto : 1..NCpf, fim : 1..NFim]

Anos == {2025 + i : i \in 1..NAno}

Rands == 0..(NRand - 1)

\* gerar_matricula_para_usuario: f"{ano}{cpf[-3:]}{ano[-2:]}{random:03d}",
\* four parts of fixed width
GerarMatriculaParaUsuario(cpf, ano, rnd) ==
    [ano |-> ano, cpf3 |-> cpf.fim, ano2 |-> ano % 100, rnd |-> rnd]

\* unique=True on matricula and on cpf of UsuarioCustom
UsuarioAceito(u, us) ==
    \A w \in us : w.id # u.id => (w.matricula # u.matricula /\ w.cpf # u.cpf)

\* create_user(email, nome_completo, cpf=cpf) with no matricula, the e-mail
\* being one no other user has: the matrícula is generated, user.save()
\* inserts the row or raises IntegrityError
CreateUser(cpf, ano, rnd) ==
    /\ Cardinality(usuarios) < MaxUsuarios
    /\ LET u == [id |-> Cardinality(usuarios) + 1, cpf |-> cpf,
                 matricula |-> GerarMatriculaParaUsuario(cpf, ano, rnd),
                 staff |-> FALSE]
       IN IF UsuarioAceito(u, usuarios)
          THEN /\ usuarios' = usuarios \cup {u}
               /\ resposta' = Resp("create_user", 201, u.id)
          ELSE /\ usuarios' = usuarios
               /\ resposta' = Resp("create_user", 500, 0)
    /\ UNCHANGED <<veiculos, nextVid, banners, nextBid, disk, dirs, site, falhas,
                   pc, loc, qr, ident8>>

NextUsuarios == \E cpf \in Cpfs, ano \in Anos, rnd \in Rands : CreateUser(cpf, ano, rnd)

SpecUsuarios == Init /\ [][NextUsuarios]_vars

\* C26: create_user without a matrícula, for a CPF no user has yet, succeeds
\* and gives the new user a matrícula that no other user has
C26_MatriculasDistintas ==
    [][\A cpf \in Cpfs, ano \in Anos, rnd \in Rands :
         (CreateUser(cpf, ano, rnd) /\ \A w \in usuarios : w.cpf # cpf)
         => /\ resposta'.status = 201
            /\ \E u \in usuarios' \ usuarios :
                 \A w \in usuarios : w.matricula # u.matricula
      ]_vars

\* ----------------------------------------------- the URL in the QR code

\* C27: the qr_url of every row whose file is on disk is the URL the QR code
\* of that file encodes
C27_UrlDoArquivo ==
    \A b \in banners :
      (b.arq # NoFile /\ b.arq \in disk) => qr[b.arq] = b.url

\* ------------------------------------------- uniqueness of vehicle fields

\* C28: no two vehicle rows, of the same table or of different tables,
\* carry the same placa
C28_PlacaUnicaEntreTabelas ==
    \A v \in veiculos : \A w \in veiculos :
      (v.tipo # w.tipo \/ v.id # w.id) => v.placa # w.placa

\* ------------------------------------------- who may reach which banner

\* two users who own one taxi each and a member of the staff
Usuario1 == [id |-> 1, cpf |-> [resto |-> 1, fim |-> 1],
             matricula |-> GerarMatriculaParaUsuario([resto |-> 1, fim |-> 1], 2026, 0),
             staff |-> FALSE]

Usuario2 == [id |-> 2, cpf |-> [resto |-> 2, fim |-> 2],
             matricula |-> GerarMatriculaParaUsuario([resto |-> 2, fim |-> 2], 2026, 0),
             staff |-> FALSE]

Usuario3 == [id |-> 3, cpf |-> [resto |-> 1, fim |-> 2],
             matricula |-> GerarMatriculaParaUsuario([resto |-> 1, fim |-> 2], 2026, 0),
             staff |-> TRUE]

\* BannerIdentificacaoViewSet.get_queryset for the user u: a member of the
\* staff sees every row, another user the rows whose (content_type,
\* object_id) is the pk of one of their vehicles
GetQueryset(u, bs, vs) ==
    IF u.staff THEN bs
    ELSE {b \in bs : \E v \in vs :
            v.usuario = u.id /\ b.ct = v.tipo /\ b.oid = v.id}

\* ListModelMixin.list over filter_queryset(get_queryset())
ListBanners(u) ==
    /\ u \in usuarios
    /\ Quieto
    /\ resposta' = [op |-> "list", status |-> 200, alvo |-> 0, user |-> u.id,
                    ids |-> {b.id : b \in GetQueryset(u, banners, veiculos)}]
    /\ UNCHANGED <<veiculos, nextVid, banners, nextBid, disk, dirs, site, falhas,
                   pc, loc, qr, usuarios, ident8>>

\* the detail routes that only read: retrieve, download and url_completa
\* start with self.get_object(), which looks the row up in the whole table;
\* download and url_completa then read banner.veiculo, whose absence ends
\* them with 404 and 500
Ler(u, op, value) ==
    /\ u \in usuarios
    /\ Quieto
    /\ LET b == GetObject(value, banners)
           status ==
             IF b = NoBanner
             THEN IF \E x \in banners : x.ident = value THEN 500 ELSE 404
             ELSE IF op = "download"
                     /\ (b.arq \notin disk \/ VeiculoGfk(b, veiculos) = NoVeiculo)
             THEN 404
             ELSE IF op = "url_completa" /\ VeiculoGfk(b, veiculos) = NoVeiculo
             THEN 500
             ELSE 200
       IN resposta' = [op |-> op, status |-> status, user |-> u.id,
                       alvo |-> IF status = 200 THEN b.id ELSE 0]
    /\ UNCHANGED <<veiculos, nextVid, banners, nextBid, disk, dirs, site, falhas,
                   pc, loc, qr, usuarios, ident8>>

\* POST regenerar sent by the user u: the handler never looks at the user
RegenerarDe(u, r, value) ==
    /\ u \in usuarios
    /\ RegCarregar(r, value)

\* DELETE sent by the user u: DestroyModelMixin.destroy deletes the row
\* get_object() returns
DestroyDe(u, r, value) ==
    /\ u \in usuarios
    /\ GetObject(value, banners) # NoBanner
    /\ DelSinal(r, {GetObject(value, banners)}, Completa(<<>>))

\* the banners of two taxis of two users are read, regenerated and deleted
\* through the API by the two users and by the staff
InitAcesso ==
    /\ veiculos = {Veiculo0, Veiculo1}
    /\ nextVid = [t \in Tipos |-> IF t = "TaxiVeiculo" THEN 3 ELSE 1]
    /\ banners = {Banner0, Banner1}
    /\ nextBid = 3
    /\ disk = {Banner0.arq, Banner1.arq}
    /\ dirs = {Banner0.arq.dir, Banner1.arq.dir}
    /\ qr = Conteudo(disk, 1)
    /\ site = 1
    /\ falhas = FALSE
    /\ pc = [r \in Reqs |-> "idle"]
    /\ loc = [r \in Reqs |-> NoLoc]
    /\ resposta = NoResp
    /\ usuarios = {Usuario1, Usuario2, Usuario3}
    /\ ident8 = NoIdent8

NextAcesso ==
    \/ \E u \in usuarios : ListBanners(u)
    \/ \E u \in usuarios, value \in {Veiculo0.ident, Veiculo1.ident},
          op \in {"retrieve", "download", "url_completa"} : Ler(u, op, value)
    \/ \E u \in usuarios, value \in {Veiculo0.ident, Veiculo1.ident} :
         RegenerarDe(u, 1, value)
    \/ \E tpl \in BOOLEAN : RegGerar(1, tpl)
    \/ RegRecarregar(1)
    \/ \E f \in Falhas : RegLimpar(1, f)
    \/ \E u \in usuarios, value \in {Veiculo0.ident, Veiculo1.ident} :
         DestroyDe(u, 1, value)
    \/ DelLinhas(1)
    \/ \E v \in veiculos : DestroyVeiculo(v)

SpecAcesso == InitAcesso /\ [][NextAcesso]_vars

\* the user who owns the vehicle of the row with primary key id, 0 when the
\* vehicle is gone
DonoDe(id) ==
    LET b == CHOOSE x \in banners : x.id = id
    IN VeiculoDe(b).usuario

\* C29: what a user who is not of the staff gets from list, retrieve,
\* download and url_completa are never banners of a vehicle of another user,
\* and the row their regenerar or delete request takes up is never the
\* banner of a vehicle of another user
C29_SoOsProprios ==
    [][\A u \in {x \in usuarios : ~x.staff} :
         /\ ListBanners(u) => \A id \in resposta'.ids : DonoDe(id) \in {0, u.id}
         /\ \A value \in Idents :
              /\ \A op \in {"retrieve", "download", "url_completa"} :
                   (Ler(u, op, value) /\ resposta'.status = 200)
                   => DonoDe(resposta'.alvo) \in {0, u.id}
              /\ (RegenerarDe(u, 1, value) /\ pc'[1] = "r_carregado")
                   => VeiculoDe(loc'[1].inst).usuario \in {0, u.id}
              /\ DestroyDe(u, 1, value)
                   => \A id \in loc'[1].alvos : DonoDe(id) \in {0, u.id}
      ]_vars

\* --------------------------------------------- create requests that fail

\* C30: when a create request is answered with an error, the row the
\* request inserted is not in the table, the step that fails changes the
\* ativo flag of no row, and every active row has its file and its qr_url
C30_CreateFalhoSemRasto ==
    [][(\E i \in Idents, tpl \in BOOLEAN :
          \/ CreateValidar(1, i)
          \/ CreateInserir(1)
          \/ CreateGerar(1, tpl))
       /\ resposta'.op = "create" /\ resposta'.status >= 400 /\ pc'[1] = "idle"
       => /\ \A b \in banners' : loc[1].inst = NoBanner \/ b.id # loc[1].inst.id
          /\ \A b \in banners' : \A c \in banners :
                c.id = b.id => c.ativo = b.ativo
          /\ \A b \in banners' : b.ativo => (b.arq # NoFile /\ b.url # NoUrl)
      ]_vars
====
